---- MODULE Spec2Model ----
(***************************************************************************)
(* Model of cryptonote::checkpoints (src/checkpoints/checkpoints.cpp):     *)
(* the two maps m_points (height -> hash) and m_difficulty_points          *)
(* (height -> difficulty), the insert operation add_checkpoint, the        *)
(* queries, check_for_conflicts and the loaders.                           *)
(*                                                                         *)
(* Spec           add_checkpoint and the queries                           *)
(* SpecConflicts  check_for_conflicts against stores built by add_checkpoint*)
(* SpecLoad       load_checkpoints_from_json as one call                   *)
(* SpecNew        load_new_checkpoints and load_checkpoints_from_dns       *)
(* SpecAny        every operation, init_default_checkpoints included       *)
(* SpecConcurrent load_checkpoints_from_json turn by turn, with queries    *)
(*                made between the turns                                   *)
(***************************************************************************)
EXTENDS Integers, Sequences, FiniteSets, TLC

VARIABLES m_points, m_difficulty_points, call, loader

vars == <<m_points, m_difficulty_points, call, loader>>

\* ------------------------------------------------------------------ bounds
\* greatest block height used as an input (uint64_t in the source)
MaxHeight == 2
\* number of bytes of a crypto::hash (32 in the build)
HASH_SIZE == 1
\* greatest number of hashlines in a checkpoint file
MaxRecords == 2
\* number of add_checkpoint calls that built the store passed as `other`
MaxOtherAdds == 2

Heights == 0..MaxHeight

\* ----------------------------------------------------------------- strings
\* A std::string is a sequence of one-character strings.
HexLower == <<"0","1","2","3","4","5","6","7","8","9","a","b","c","d","e","f">>
HexUpper == <<"0","1","2","3","4","5","6","7","8","9","A","B","C","D","E","F">>

IsHexChar(c) == \E i \in 1..16 : HexLower[i] = c \/ HexUpper[i] = c

HexValue(c) == (CHOOSE i \in 1..16 : HexLower[i] = c \/ HexUpper[i] = c) - 1

\* crypto::null_hash: HASH_SIZE zero bytes
null_hash == [i \in 1..HASH_SIZE |-> 0]

\* epee::string_tools::hex_to_pod(hex_str, h): succeeds only when hex_str has
\* exactly two hex digits per byte of h; digits are read in either case.
hex_to_pod(hex_str) ==
    IF Len(hex_str) = 2 * HASH_SIZE /\ \A i \in 1..Len(hex_str) : IsHexChar(hex_str[i])
    THEN [r |-> TRUE,
          h |-> [i \in 1..HASH_SIZE |->
                   16 * HexValue(hex_str[2 * i - 1]) + HexValue(hex_str[2 * i])]]
    ELSE [r |-> FALSE, h |-> null_hash]

\* A difficulty_type value (a 128-bit unsigned integer in the build) is the
\* sequence of its base-16 digits, least significant first, without leading
\* zeros; no string used here reaches 2^128.
RECURSIVE MulAdd(_, _, _)
\* n * m + c
MulAdd(n, m, c) ==
    IF n = <<>>
    THEN IF c = 0 THEN <<>> ELSE <<c % 16>> \o MulAdd(<<>>, m, c \div 16)
    ELSE <<(n[1] * m + c) % 16>> \o MulAdd(Tail(n), m, (n[1] * m + c) \div 16)

\* what ParseRadix gives for a string that is not a number
NotANumber == <<-1>>

RECURSIVE ParseRadix(_, _, _)
\* value of the digit string s in the given radix, NotANumber when a
\* character is not a digit of that radix (the constructor throws)
ParseRadix(s, radix, acc) ==
    IF s = <<>> THEN acc
    ELSE IF IsHexChar(Head(s)) /\ HexValue(Head(s)) < radix
         THEN ParseRadix(Tail(s), radix, MulAdd(acc, radix, HexValue(Head(s))))
         ELSE NotANumber

\* difficulty_type difficulty(difficulty_str): "0x" prefix is hexadecimal, a
\* leading "0" octal, anything else decimal; ok = FALSE stands for the throw.
difficulty_type(difficulty_str) ==
    LET n == Len(difficulty_str)
        v == IF n >= 3 /\ difficulty_str[1] = "0" /\ difficulty_str[2] \in {"x", "X"}
             THEN ParseRadix(SubSeq(difficulty_str, 3, n), 16, <<>>)
             ELSE IF n >= 2 /\ difficulty_str[1] = "0"
                  THEN ParseRadix(Tail(difficulty_str), 8, <<>>)
                  ELSE IF n >= 1 THEN ParseRadix(difficulty_str, 10, <<>>)
                       ELSE NotANumber
    IN  [ok |-> v # NotANumber, value |-> v]

\* ------------------------------------------------------------ input strings
\* hash strings handed to the program: four of the right length (two of them
\* the same hash in different case, one with a non-hex digit) and a short one
HashStr(c) == [i \in 1..(2 * HASH_SIZE) |-> IF i = 1 THEN c ELSE "0"]
ShortHashStr == [i \in 1..(2 * HASH_SIZE - 1) |-> "a"]
HashStrs == {HashStr("a"), HashStr("A"), HashStr("b"), HashStr("g"), ShortHashStr}

\* decoded hashes handed to check_block
Hashes == {hex_to_pod(s).h : s \in {t \in HashStrs : hex_to_pod(t).r}}

DifficultyStrs == {<<>>, <<"1">>, <<"0", "x", "1">>, <<"2">>, <<"z">>}

\* ------------------------------------------------------------- std::map
\* A std::map<uint64_t, T> is a function whose domain is its key set.
EmptyMap == [x \in {} |-> 0]

\* m[key] = value
MapSet(m, key, value) ==
    [x \in (DOMAIN m) \cup {key} |-> IF x = key THEN value ELSE m[x]]

\* m.count(key)
count(m, key) == IF key \in DOMAIN m THEN 1 ELSE 0

RECURSIVE Keys(_)
\* the keys of a map in iteration (ascending) order
Keys(S) ==
    IF S = {} THEN <<>>
    ELSE LET lo == CHOOSE x \in S : \A y \in S : x <= y
         IN  <<lo>> \o Keys(S \ {lo})

\* (--m.end())->first and m.rbegin()->first: the greatest key of a non-empty map
LastKey(m) == Keys(DOMAIN m)[Len(Keys(DOMAIN m))]

\* m.upper_bound(key): position, in iteration order, of the first element
\* whose key is greater than key; Cardinality + 1 stands for m.end()
upper_bound(m, key) ==
    LET ks == Keys(DOMAIN m)
    IN  IF \E i \in 1..Len(ks) : ks[i] > key
        THEN CHOOSE i \in 1..Len(ks) :
                 ks[i] > key /\ \A j \in 1..(i - 1) : ks[j] <= key
        ELSE Len(ks) + 1

\* --------------------------------------------------------- add_checkpoint
\* the result of a mutating call: the returned bool and the two maps as the
\* call leaves them
Outcome(r, points, difficulty_points) ==
    [r |-> r, points |-> points, difficulty_points |-> difficulty_points]

\* variant: the hash is stored before it is compared with the stored one
add_checkpoint_overwrite(points, difficulty_points, height, hash_str, difficulty_str) ==
    LET hp == hex_to_pod(hash_str)
    IN  IF ~hp.r THEN Outcome(FALSE, points, difficulty_points)
        ELSE IF count(points, height) = 1 /\ hp.h # points[height]
             THEN Outcome(FALSE, MapSet(points, height, hp.h), difficulty_points)
             ELSE Outcome(TRUE, MapSet(points, height, hp.h), difficulty_points)

\* variant: any insertion at an anchored height is refused, equal hash or not
add_checkpoint_no_reinsert(points, difficulty_points, height, hash_str, difficulty_str) ==
    LET hp == hex_to_pod(hash_str)
    IN  IF ~hp.r \/ count(points, height) = 1
        THEN Outcome(FALSE, points, difficulty_points)
        ELSE Outcome(TRUE, MapSet(points, height, hp.h), difficulty_points)

\* variant: the difficulty is stored before it is compared with the stored one
add_checkpoint_difficulty_overwrite(points, difficulty_points, height, hash_str, difficulty_str) ==
    LET hp == hex_to_pod(hash_str)
    IN  IF ~hp.r THEN Outcome(FALSE, points, difficulty_points)
        ELSE IF count(points, height) = 1 /\ hp.h # points[height]
        THEN Outcome(FALSE, points, difficulty_points)
        ELSE
          LET points1 == MapSet(points, height, hp.h)
          IN  IF difficulty_str = <<>> THEN Outcome(TRUE, points1, difficulty_points)
              ELSE
                LET difficulty == difficulty_type(difficulty_str)
                IN  IF ~difficulty.ok
                    THEN Outcome(FALSE, points1, difficulty_points)
                    ELSE Outcome(count(difficulty_points, height) = 0
                                     \/ difficulty.value = difficulty_points[height],
                                 points1,
                                 MapSet(difficulty_points, height, difficulty.value))

\* variant: the difficulty is parsed and stored before the hash is decoded
add_checkpoint_difficulty_first(points, difficulty_points, height, hash_str, difficulty_str) ==
    LET difficulty == difficulty_type(difficulty_str)
        difficulty_points1 ==
            IF difficulty_str # <<>> /\ difficulty.ok
                   /\ count(difficulty_points, height) = 0
            THEN MapSet(difficulty_points, height, difficulty.value)
            ELSE difficulty_points
        hp == hex_to_pod(hash_str)
    IN  IF ~hp.r THEN Outcome(FALSE, points, difficulty_points1)
        ELSE IF count(points, height) = 1 /\ hp.h # points[height]
        THEN Outcome(FALSE, points, difficulty_points1)
        ELSE
          LET points1 == MapSet(points, height, hp.h)
          IN  IF difficulty_str = <<>> THEN Outcome(TRUE, points1, difficulty_points)
              ELSE IF ~difficulty.ok
                   THEN Outcome(FALSE, points1, difficulty_points)
                   ELSE Outcome(count(difficulty_points, height) = 0
                                    \/ difficulty.value = difficulty_points[height],
                                points1, difficulty_points1)

\* checkpoints::add_checkpoint(height, hash_str, difficulty_str)
add_checkpoint(points, difficulty_points, height, hash_str, difficulty_str) ==
    LET hp == hex_to_pod(hash_str)
    IN  IF ~hp.r THEN Outcome(FALSE, points, difficulty_points)
        ELSE IF count(points, height) = 1 /\ hp.h # points[height]
        THEN Outcome(FALSE, points, difficulty_points)
        ELSE
          LET points1 == MapSet(points, height, hp.h)
          IN  IF difficulty_str = <<>> THEN Outcome(TRUE, points1, difficulty_points)
              ELSE
                LET difficulty == difficulty_type(difficulty_str)
                IN  IF ~difficulty.ok
                    THEN Outcome(FALSE, points1, difficulty_points)
                    ELSE IF count(difficulty_points, height) = 1
                            /\ difficulty.value # difficulty_points[height]
                    THEN Outcome(FALSE, points1, difficulty_points)
                    ELSE Outcome(TRUE, points1,
                                 MapSet(difficulty_points, height, difficulty.value))

\* ----------------------------------------------------------------- queries
\* variant: the greatest anchored height is left out of the zone
is_in_checkpoint_zone_lt(points, height) ==
    DOMAIN points # {} /\ height < LastKey(points)

\* checkpoints::is_in_checkpoint_zone(height)
is_in_checkpoint_zone(points, height) ==
    DOMAIN points # {} /\ height <= LastKey(points)

\* variant: a block whose hash differs from the anchor is let through
check_block_lenient(points, height, h) ==
    [r |-> TRUE, is_a_checkpoint |-> height \in DOMAIN points]

\* checkpoints::check_block(height, h, is_a_checkpoint)
check_block(points, height, h) ==
    LET is_a_checkpoint == height \in DOMAIN points
    IN  IF ~is_a_checkpoint THEN [r |-> TRUE, is_a_checkpoint |-> FALSE]
        ELSE IF points[height] = h
             THEN [r |-> TRUE, is_a_checkpoint |-> TRUE]
             ELSE [r |-> FALSE, is_a_checkpoint |-> TRUE]

\* variant: the fork height is compared with <= instead of <
is_alternative_block_allowed_le(points, blockchain_height, block_height) ==
    IF 0 = block_height THEN FALSE
    ELSE LET it == upper_bound(points, blockchain_height)
         IN  IF it = 1 THEN TRUE
             ELSE Keys(DOMAIN points)[it - 1] <= block_height

\* variant: the anchor compared is the greatest of the store, not the one
\* at or below blockchain_height
is_alternative_block_allowed_last(points, blockchain_height, block_height) ==
    IF 0 = block_height THEN FALSE
    ELSE IF DOMAIN points = {} THEN TRUE
         ELSE LastKey(points) < block_height

\* variant: the operands of the last comparison are exchanged
is_alternative_block_allowed_reversed(points, blockchain_height, block_height) ==
    IF 0 = block_height THEN FALSE
    ELSE LET it == upper_bound(points, blockchain_height)
         IN  IF it = 1 THEN TRUE
             ELSE block_height < Keys(DOMAIN points)[it - 1]

\* checkpoints::is_alternative_block_allowed(blockchain_height, block_height)
is_alternative_block_allowed(points, blockchain_height, block_height) ==
    IF 0 = block_height THEN FALSE
    ELSE LET it == upper_bound(points, blockchain_height)
         IN  IF it = 1 THEN TRUE
             ELSE LET checkpoint_height == Keys(DOMAIN points)[it - 1]
                  IN  checkpoint_height < block_height

\* variant: the first key (begin) is returned instead of the last (rbegin)
get_max_height_first(points) ==
    IF DOMAIN points = {} THEN 0 ELSE Keys(DOMAIN points)[1]

\* checkpoints::get_max_height()
get_max_height(points) ==
    IF DOMAIN points = {} THEN 0 ELSE LastKey(points)

RECURSIVE check_for_conflicts_from(_, _, _)
\* the loop of check_for_conflicts over the points of `other`, in key order
check_for_conflicts_from(points, other_points, ks) ==
    IF ks = <<>> THEN TRUE
    ELSE IF count(points, Head(ks)) = 1 /\ other_points[Head(ks)] # points[Head(ks)]
         THEN FALSE
         ELSE check_for_conflicts_from(points, other_points, Tail(ks))

\* variant: the loop returns after the first point of `other`
check_for_conflicts_first(points, other_points) ==
    LET ks == Keys(DOMAIN other_points)
    IN  ks = <<>> \/ count(points, ks[1]) = 0 \/ other_points[ks[1]] = points[ks[1]]

\* variant: any height anchored in both stores is reported as a conflict
check_for_conflicts_shared(points, other_points) ==
    (DOMAIN points) \cap (DOMAIN other_points) = {}

\* checkpoints::check_for_conflicts(other)
check_for_conflicts(points, other_points) ==
    check_for_conflicts_from(points, other_points, Keys(DOMAIN other_points))

\* ------------------------------------------------ init_default_checkpoints
\* the arguments of one ADD_CHECKPOINT2 line; of the 64 hex digits of the
\* source only the first 2 * HASH_SIZE are kept, the hash having HASH_SIZE
\* bytes here
Checkpoint(height, hash, difficulty) ==
    [height |-> height, hash |-> SubSeq(hash, 1, 2 * HASH_SIZE),
     difficulty |-> difficulty]

\* the checkpoint of TESTNET
TestnetCheckpoints ==
  <<
    Checkpoint(0,
        <<"4","8","c","a","7","c","d","3","c","8","d","e","5","b","6","a",
          "4","d","5","3","d","2","8","6","1","f","b","d","a","e","d","c",
          "a","1","4","1","5","5","3","5","5","9","f","9","b","e","9","5",
          "2","0","0","6","8","0","5","3","c","d","a","8","4","3","0","b">>,
        <<"0","x","1">>)
  >>

\* the checkpoint of STAGENET
StagenetCheckpoints ==
  <<
    Checkpoint(0,
        <<"7","6","e","e","3","c","c","9","8","6","4","6","2","9","2","2",
          "0","6","c","d","3","e","8","6","f","7","4","d","8","8","b","4",
          "d","c","c","1","d","9","3","7","0","8","8","6","4","5","e","9",
          "b","0","c","b","c","a","8","4","b","7","c","e","7","4","e","b">>,
        <<"0","x","1">>)
  >>

\* the checkpoints of the main network
MainnetCheckpoints ==
  <<
    Checkpoint(0,
        <<"1","3","2","3","a","a","6","3","f","4","7","8","9","a","e","2",
          "c","8","7","a","5","5","0","2","0","6","6","1","c","7","2","2",
          "4","4","3","2","f","5","6","a","7","a","e","7","4","e","8","b",
          "2","0","9","5","8","b","a","e","9","5","f","c","f","7","e","e">>,
        <<"0","x","1">>),
    Checkpoint(500,
        <<"e","c","0","2","3","2","3","2","4","f","5","0","3","d","b","6",
          "9","6","2","a","4","5","3","e","a","a","2","e","e","d","d","2",
          "0","8","4","4","8","7","a","4","c","6","d","b","9","a","e","c",
          "9","0","b","3","4","6","4","2","2","9","c","2","0","6","6","5">>,
        <<"0","x","1","1","8","1","d","0">>),
    Checkpoint(1000,
        <<"8","2","3","4","f","2","3","4","b","a","3","a","1","5","5","1",
          "7","6","0","4","8","e","1","c","b","0","e","c","7","2","c","8",
          "0","1","4","8","0","8","0","e","7","4","f","b","5","d","4","5",
          "d","e","9","c","7","b","7","3","0","8","4","7","a","0","8","d">>,
        <<"0","x","1","4","b","e","f","2">>),
    Checkpoint(1500,
        <<"e","9","4","3","5","d","a","0","d","2","2","2","9","7","c","e",
          "3","5","1","0","5","c","c","e","7","e","7","d","e","6","2","5",
          "1","0","e","d","8","1","2","0","5","6","7","6","2","6","e","d",
          "6","1","9","b","c","b","0","2","f","a","b","c","d","a","c","d">>,
        <<"0","x","1","6","c","a","9","a">>),
    Checkpoint(2000,
        <<"9","0","9","0","e","5","a","4","a","0","6","d","d","c","3","c",
          "b","f","6","a","6","2","4","f","7","5","8","8","4","e","f","5",
          "3","2","f","0","0","d","d","d","d","e","1","8","4","7","8","c",
          "7","e","d","e","0","5","7","e","c","2","d","c","7","c","0","b">>,
        <<"0","x","1","9","0","5","d","c">>),
    Checkpoint(2500,
        <<"1","8","3","e","8","4","1","f","3","4","d","2","f","c","6","0",
          "d","2","9","e","e","2","e","5","2","d","a","b","6","e","b","4",
          "8","e","6","2","3","4","b","0","f","1","c","3","4","9","d","6",
          "1","6","0","1","a","c","4","2","9","d","8","a","4","0","b","7">>,
        <<"0","x","2","a","0","9","8","9","0">>),
    Checkpoint(3000,
        <<"1","b","4","5","f","3","4","2","e","4","4","a","9","0","0","7",
          "c","3","9","3","9","6","a","0","b","8","b","2","f","5","7","e",
          "5","a","e","2","5","1","f","8","e","7","f","9","c","0","5","f",
          "7","3","e","7","7","a","7","c","a","9","e","2","0","4","b","6">>,
        <<"0","x","8","b","7","6","0","8","0">>),
    Checkpoint(3500,
        <<"7","e","5","f","c","7","0","1","6","e","7","2","1","b","e","f",
          "5","e","8","5","8","c","e","1","1","1","e","a","c","f","0","0",
          "6","f","4","c","1","6","f","0","a","e","2","b","c","2","a","9",
          "5","e","c","4","c","3","0","2","1","d","6","c","1","3","9","f">>,
        <<"0","x","1","a","b","d","e","e","7","5">>),
    Checkpoint(4000,
        <<"4","3","f","a","d","a","f","4","9","7","5","d","e","4","e","a",
          "5","4","3","7","2","1","6","e","b","7","6","5","7","1","9","5",
          "6","3","1","9","b","a","f","4","9","1","a","f","6","e","c","4",
          "c","d","a","1","0","6","2","6","6","0","6","5","b","7","4","8">>,
        <<"0","x","4","1","b","e","8","f","2","b">>),
    Checkpoint(4500,
        <<"1","c","5","3","b","5","8","6","7","f","0","f","5","0","3","2",
          "b","e","d","8","b","0","9","3","1","3","b","5","d","c","7","b",
          "f","a","7","8","a","a","1","4","9","5","2","f","c","5","d","d",
          "6","4","9","9","7","5","8","3","6","a","b","b","1","a","9","d">>,
        <<"0","x","c","f","f","b","c","4","3","e">>),
    Checkpoint(5000,
        <<"8","7","0","7","e","5","b","d","d","5","f","c","f","7","9","e",
          "3","a","7","a","0","e","1","f","8","6","d","6","b","d","1","3",
          "d","4","1","6","3","3","e","8","a","5","c","b","1","d","9","1",
          "5","2","f","d","2","e","e","1","c","0","9","3","6","3","d","1">>,
        <<"0","x","2","3","a","7","8","4","c","0","0">>),
    Checkpoint(5500,
        <<"9","d","0","f","8","d","4","2","3","a","0","b","4","6","5","b",
          "5","9","7","1","5","4","0","5","e","4","6","d","b","d","1","2",
          "6","8","a","f","b","e","5","e","9","0","8","2","0","f","a","2",
          "0","6","e","d","c","e","0","2","c","e","2","c","9","5","3","3">>,
        <<"0","x","4","1","3","0","5","8","c","1","6">>),
    Checkpoint(6000,
        <<"e","3","1","a","1","8","9","9","7","8","d","5","3","f","f","e",
          "8","a","0","9","a","a","a","b","2","0","b","1","b","4","a","8",
          "a","2","e","3","4","9","8","e","f","b","c","b","d","9","8","2",
          "6","8","e","f","1","e","8","0","a","1","3","4","4","c","c","4">>,
        <<"0","x","6","2","8","2","f","0","1","b","c">>),
    Checkpoint(6500,
        <<"7","c","b","5","e","d","d","c","9","b","e","4","f","5","1","2",
          "5","5","3","5","b","b","7","d","7","0","a","e","b","d","3","a",
          "6","6","4","1","4","8","7","b","9","c","4","2","0","8","0","2",
          "5","0","7","a","0","7","9","3","2","2","a","3","4","7","4","9">>,
        <<"0","x","9","6","5","1","0","a","0","4","3">>),
    Checkpoint(7000,
        <<"b","a","2","1","2","e","d","7","9","7","7","7","9","3","d","0",
          "1","3","8","8","6","8","5","3","9","9","d","6","9","8","d","1",
          "b","9","3","c","5","9","3","4","2","9","c","b","6","f","e","f",
          "c","6","c","0","1","3","8","1","9","3","b","a","8","a","b","f">>,
        <<"0","x","d","3","e","1","6","6","d","b","4">>),
    Checkpoint(7500,
        <<"5","e","3","0","8","c","3","f","d","4","9","6","c","e","4","9",
          "7","e","1","4","7","b","0","c","3","f","0","9","9","c","f","6",
          "5","8","4","f","7","7","e","e","d","a","7","3","5","4","8","b",
          "7","1","d","1","1","b","0","1","e","b","5","d","f","8","7","d">>,
        <<"0","x","1","1","3","c","2","c","6","3","6","5">>),
    Checkpoint(8000,
        <<"b","c","e","5","2","d","1","f","1","c","f","5","7","8","9","1",
          "d","0","d","1","c","b","e","8","4","7","d","2","c","d","5","c",
          "8","5","c","2","4","a","3","2","a","8","5","f","c","f","9","c",
          "5","a","b","8","9","8","6","9","f","6","7","0","b","3","3","b">>,
        <<"0","x","1","4","a","8","4","e","c","8","7","5">>),
    Checkpoint(8500,
        <<"7","f","d","7","b","2","a","5","c","8","6","d","0","d","f","0",
          "c","c","c","d","9","e","8","e","1","0","1","d","5","d","c","d",
          "7","8","c","8","7","b","3","2","7","8","d","4","0","9","4","f",
          "f","9","b","f","3","7","4","b","6","3","6","7","5","6","8","9">>,
        <<"0","x","1","8","4","8","5","1","0","3","b","7">>),
    Checkpoint(9000,
        <<"1","f","d","c","5","d","f","6","0","d","7","7","b","2","d","9",
          "e","e","4","8","5","4","3","8","1","d","3","e","4","b","d","f",
          "e","a","5","f","5","4","3","c","6","b","7","9","2","4","0","c",
          "8","7","f","5","b","3","e","e","8","e","5","0","2","9","9","4">>,
        <<"0","x","1","b","e","f","e","8","1","0","4","c">>),
    Checkpoint(9500,
        <<"5","a","8","3","4","a","e","8","0","f","c","c","3","9","8","2",
          "0","1","1","e","b","e","6","a","b","6","8","a","f","5","6","c",
          "b","6","3","0","7","8","1","c","6","e","5","c","7","8","5","e",
          "f","9","f","9","4","c","9","9","a","6","c","b","7","3","9","2">>,
        <<"0","x","1","f","9","0","f","a","2","9","b","9">>),
    Checkpoint(10000,
        <<"0","6","4","b","0","6","3","1","e","6","6","4","7","4","f","9",
          "6","d","0","2","1","c","e","f","2","8","7","5","1","8","b","8",
          "3","0","2","a","6","b","d","c","b","5","d","1","0","2","7","1",
          "8","6","c","2","8","4","4","f","d","0","c","e","2","e","8","4">>,
        <<"0","x","2","3","3","8","a","1","d","5","c","1">>),
    Checkpoint(10500,
        <<"9","5","d","6","b","7","e","1","3","9","2","9","2","7","1","a",
          "a","3","9","7","2","f","8","1","3","2","7","d","5","3","7","a",
          "8","7","6","f","7","e","d","e","3","0","6","c","a","9","b","e",
          "2","c","7","9","6","7","1","3","e","a","7","f","f","b","6","f">>,
        <<"0","x","2","7","0","a","d","0","9","f","0","9">>),
    Checkpoint(11000,
        <<"4","d","3","f","e","1","4","5","6","3","7","5","a","6","e","a",
          "e","6","a","5","4","9","3","5","4","d","c","c","6","7","0","a",
          "f","0","3","8","7","1","8","e","c","7","3","3","2","d","6","1",
          "f","8","7","d","3","0","5","e","0","2","8","5","f","6","e","d">>,
        <<"0","x","2","a","b","a","e","6","e","6","7","b">>),
    Checkpoint(11500,
        <<"f","b","2","a","6","2","5","f","d","5","b","8","7","2","7","3",
          "a","9","e","c","0","8","e","f","b","c","7","d","0","6","d","7",
          "2","6","c","5","1","5","a","4","b","e","b","5","d","0","4","b",
          "f","1","5","1","1","5","e","a","2","9","0","7","f","5","c","1">>,
        <<"0","x","2","d","0","2","a","5","c","8","4","2">>),
    Checkpoint(12000,
        <<"b","f","d","0","e","b","6","b","3","c","7","d","6","e","9","b",
          "8","4","3","a","b","2","5","7","d","6","9","0","9","c","6","b",
          "c","e","7","5","4","7","2","0","6","8","4","4","9","b","9","c",
          "c","b","8","a","0","7","e","4","0","e","5","2","a","e","a","b">>,
        <<"0","x","2","e","9","8","2","f","0","7","7","4">>),
    Checkpoint(12500,
        <<"8","c","7","5","b","6","0","9","3","7","9","7","6","e","c","5",
          "1","4","1","3","7","e","d","a","7","b","b","3","b","6","3","c",
          "b","a","b","b","c","b","7","e","0","2","c","3","6","5","c","9",
          "2","3","8","4","0","e","c","2","f","9","f","2","0","9","0","e">>,
        <<"0","x","3","0","7","e","8","d","e","8","a","7">>),
    Checkpoint(13000,
        <<"9","a","d","4","5","6","1","9","9","7","3","f","e","2","3","a",
          "7","9","6","8","f","3","4","3","7","2","c","6","1","b","6","a",
          "1","d","f","2","b","6","7","0","e","0","f","5","9","8","0","9",
          "0","2","a","4","a","8","f","6","8","2","f","f","e","7","3","0">>,
        <<"0","x","3","4","5","3","0","a","1","2","0","f">>),
    Checkpoint(13500,
        <<"e","c","4","3","7","b","4","a","b","2","7","a","0","f","c","a",
          "e","2","9","1","2","c","2","1","5","9","6","f","9","b","1","f",
          "b","c","b","7","e","e","e","3","d","f","2","d","7","4","3","8",
          "5","c","6","0","f","2","b","9","b","5","e","8","6","9","3","f">>,
        <<"0","x","3","b","7","9","5","8","4","1","e","f">>),
    Checkpoint(14000,
        <<"1","5","e","8","4","1","d","9","b","1","2","a","c","b","0","1",
          "0","3","d","4","a","5","f","9","6","2","7","0","6","b","8","9",
          "f","f","d","b","d","4","e","4","6","6","9","f","9","f","5","b",
          "e","0","9","e","d","b","5","5","f","0","0","9","1","9","d","3">>,
        <<"0","x","4","5","0","a","5","2","5","7","2","d">>),
    Checkpoint(14500,
        <<"9","3","9","5","9","a","5","2","2","8","4","9","2","3","c","2",
          "6","5","7","8","e","d","3","e","c","7","f","7","6","2","3","d",
          "a","d","9","f","3","4","5","9","d","9","5","8","b","a","7","d",
          "f","a","d","0","1","6","9","0","c","b","7","f","b","6","e","8">>,
        <<"0","x","5","3","f","5","e","6","5","0","9","2">>),
    Checkpoint(15000,
        <<"f","0","9","5","7","f","c","f","b","3","e","7","f","4","5","2",
          "8","9","3","2","7","2","b","0","4","3","e","e","9","9","c","c",
          "6","8","7","0","3","c","9","a","a","9","7","e","f","d","f","b",
          "2","3","a","c","a","a","8","8","3","d","4","c","0","b","4","f">>,
        <<"0","x","6","5","e","c","4","2","3","a","d","8">>),
    Checkpoint(15500,
        <<"8","0","4","a","6","7","b","2","c","b","7","f","8","6","7","0",
          "7","3","4","7","b","2","8","e","3","a","4","8","7","e","1","4",
          "c","1","4","9","7","0","c","3","e","1","7","5","d","7","e","4",
          "6","f","6","9","3","3","b","3","c","9","6","2","7","7","2","5">>,
        <<"0","x","7","c","0","b","e","5","3","d","a","e">>),
    Checkpoint(16000,
        <<"d","4","a","f","d","9","5","4","e","4","4","4","5","3","1","2",
          "e","a","6","4","4","7","3","c","e","2","c","e","0","6","4","4",
          "4","a","3","3","7","0","6","2","4","1","4","3","e","1","d","6",
          "1","2","9","c","a","7","5","2","1","6","f","2","3","b","8","e">>,
        <<"0","x","9","7","a","9","e","3","e","3","1","5">>),
    Checkpoint(16500,
        <<"6","5","0","c","c","b","6","6","5","e","e","c","2","0","9","a",
          "4","b","3","4","2","d","3","9","5","c","9","0","6","3","7","c",
          "c","a","1","5","4","f","2","7","b","3","6","9","9","c","a","f",
          "b","3","9","0","3","2","f","a","3","b","b","c","f","5","8","a">>,
        <<"0","x","b","7","a","6","a","1","9","7","e","1">>)
  >>

\* ADD_CHECKPOINT2(h, hash, difficulty): add_checkpoint(h, hash, difficulty);
\* `returned` tells that the enclosing function returned false
ADD_CHECKPOINT2(points, difficulty_points, h, hash, difficulty) ==
    LET a == add_checkpoint(points, difficulty_points, h, hash, difficulty)
    IN  [returned |-> ~a.r, points |-> a.points,
         difficulty_points |-> a.difficulty_points]

RECURSIVE add_default_checkpoints(_, _, _)
\* a run of ADD_CHECKPOINT2 lines and the return true after it
add_default_checkpoints(points, difficulty_points, lines) ==
    IF lines = <<>> THEN Outcome(TRUE, points, difficulty_points)
    ELSE LET s == ADD_CHECKPOINT2(points, difficulty_points, Head(lines).height,
                                  Head(lines).hash, Head(lines).difficulty)
         IN  IF s.returned THEN Outcome(FALSE, s.points, s.difficulty_points)
             ELSE add_default_checkpoints(s.points, s.difficulty_points, Tail(lines))

\* checkpoints::init_default_checkpoints(nettype)
init_default_checkpoints(points, difficulty_points, nettype) ==
    IF nettype = "TESTNET"
    THEN add_default_checkpoints(points, difficulty_points, TestnetCheckpoints)
    ELSE IF nettype = "STAGENET"
    THEN add_default_checkpoints(points, difficulty_points, StagenetCheckpoints)
    ELSE add_default_checkpoints(points, difficulty_points, MainnetCheckpoints)

\* ----------------------------------------------------------------- loaders
\* A checkpoint file: absent, present but rejected by load_t_from_json_file,
\* or present with its hashlines (t_hash_json)
NoFile == [exists |-> FALSE, parses |-> FALSE, hashlines |-> <<>>]
BadFile == [exists |-> TRUE, parses |-> FALSE, hashlines |-> <<>>]
GoodFile(hashlines) == [exists |-> TRUE, parses |-> TRUE, hashlines |-> hashlines]

\* ADD_CHECKPOINT(h, hash): add_checkpoint(h, hash) with the default empty
\* difficulty; `returned` tells that the enclosing function returned false
ADD_CHECKPOINT(points, difficulty_points, h, hash) ==
    LET a == add_checkpoint(points, difficulty_points, h, hash, <<>>)
    IN  [returned |-> ~a.r, points |-> a.points,
         difficulty_points |-> a.difficulty_points]

\* variant: the baseline follows the insertions of the file being loaded
load_hashline_moving(points, difficulty_points, prev_max_height, line) ==
    IF line.height <= get_max_height(points)
    THEN [returned |-> FALSE, points |-> points,
          difficulty_points |-> difficulty_points]
    ELSE ADD_CHECKPOINT(points, difficulty_points, line.height, line.hash)

\* variant: a hashline at or below the baseline is inserted like any other
load_hashline_unfiltered(points, difficulty_points, prev_max_height, line) ==
    ADD_CHECKPOINT(points, difficulty_points, line.height, line.hash)

\* variant: a hashline at the baseline itself is inserted
load_hashline_lt(points, difficulty_points, prev_max_height, line) ==
    IF line.height < prev_max_height
    THEN [returned |-> FALSE, points |-> points,
          difficulty_points |-> difficulty_points]
    ELSE ADD_CHECKPOINT(points, difficulty_points, line.height, line.hash)

\* one turn of the loop of load_checkpoints_from_json
load_hashline(points, difficulty_points, prev_max_height, line) ==
    IF line.height <= prev_max_height
    THEN [returned |-> FALSE, points |-> points,
          difficulty_points |-> difficulty_points]
    ELSE ADD_CHECKPOINT(points, difficulty_points, line.height, line.hash)

RECURSIVE load_hashlines(_, _, _, _)
\* the loop of load_checkpoints_from_json and the return after it
load_hashlines(points, difficulty_points, prev_max_height, hashlines) ==
    IF hashlines = <<>> THEN Outcome(TRUE, points, difficulty_points)
    ELSE LET s == load_hashline(points, difficulty_points, prev_max_height,
                                Head(hashlines))
         IN  IF s.returned THEN Outcome(FALSE, s.points, s.difficulty_points)
             ELSE load_hashlines(s.points, s.difficulty_points, prev_max_height,
                                 Tail(hashlines))

\* variant: a file that does not exist is handed to the parser, which fails
load_checkpoints_from_json_no_exists(points, difficulty_points, file) ==
    IF ~file.exists \/ ~file.parses THEN Outcome(FALSE, points, difficulty_points)
    ELSE load_hashlines(points, difficulty_points, get_max_height(points),
                        file.hashlines)

\* checkpoints::load_checkpoints_from_json(json_hashfile_fullpath)
load_checkpoints_from_json(points, difficulty_points, file) ==
    IF ~file.exists THEN Outcome(TRUE, points, difficulty_points)
    ELSE LET prev_max_height == get_max_height(points)
         IN  IF ~file.parses THEN Outcome(FALSE, points, difficulty_points)
             ELSE load_hashlines(points, difficulty_points, prev_max_height,
                                 file.hashlines)

\* checkpoints::load_checkpoints_from_dns(nettype): returns before any record
\* is fetched
load_checkpoints_from_dns(points, difficulty_points, nettype) ==
    Outcome(FALSE, points, difficulty_points)

\* variant: the two results are combined with |= instead of &=
load_new_checkpoints_or(points, difficulty_points, file, nettype, dns) ==
    LET j == load_checkpoints_from_json(points, difficulty_points, file)
    IN  IF dns
        THEN LET d == load_checkpoints_from_dns(j.points, j.difficulty_points, nettype)
             IN  Outcome(j.r \/ d.r, d.points, d.difficulty_points)
        ELSE j

\* checkpoints::load_new_checkpoints(json_hashfile_fullpath, nettype, dns)
load_new_checkpoints(points, difficulty_points, file, nettype, dns) ==
    LET j == load_checkpoints_from_json(points, difficulty_points, file)
    IN  IF dns
        THEN LET d == load_checkpoints_from_dns(j.points, j.difficulty_points, nettype)
             IN  Outcome(j.r /\ d.r, d.points, d.difficulty_points)
        ELSE j

\* ------------------------------------------------------------------ inputs
\* hash strings written in checkpoint files
FileHashStrs == {HashStr("a"), HashStr("b"), HashStr("g")}

Hashlines == [height : Heights, hash : FileHashStrs]

RECURSIVE SeqsUpTo(_, _)
\* the sequences over S of length at most n
SeqsUpTo(S, n) ==
    IF n = 0 THEN {<<>>}
    ELSE LET shorter == SeqsUpTo(S, n - 1)
         IN  shorter \cup {Append(q, x) : q \in shorter, x \in S}

Files == {NoFile, BadFile} \cup {GoodFile(hl) : hl \in SeqsUpTo(Hashlines, MaxRecords)}

NetworkTypes == {"MAINNET", "TESTNET", "STAGENET"}

\* a checkpoints object: its two maps
Store(points, difficulty_points) ==
    [points |-> points, difficulty_points |-> difficulty_points]

RECURSIVE StoresBuiltBy(_)
\* the stores that at most n successful or failed add_checkpoint calls build
\* from the empty one
StoresBuiltBy(n) ==
    IF n = 0 THEN {Store(EmptyMap, EmptyMap)}
    ELSE LET before == StoresBuiltBy(n - 1)
         IN  before \cup
             { LET a == add_checkpoint(s.points, s.difficulty_points, height,
                                       hash_str, difficulty_str)
               IN  Store(a.points, a.difficulty_points) :
               s \in before, height \in Heights,
               hash_str \in {HashStr("a"), HashStr("b")},
               difficulty_str \in {<<>>, <<"2">>} }

\* the checkpoints objects passed to check_for_conflicts
OtherStores == StoresBuiltBy(MaxOtherAdds)

\* ------------------------------------------------------------------- state
\* `call` is the call that has just returned, until its caller goes on: its
\* name, arguments, results and the two maps as they were when it was entered.
Call(op, args, ret) ==
    [op |-> op, args |-> args, ret |-> ret,
     pre_points |-> m_points, pre_difficulty_points |-> m_difficulty_points]

NoCall ==
    [op |-> "none", args |-> <<>>, ret |-> <<>>,
     pre_points |-> EmptyMap, pre_difficulty_points |-> EmptyMap]

\* `loader` is the position of a load_checkpoints_from_json call that has
\* entered its loop: the file, the hashlines still to process, the baseline
\* and the maps as they were on entry.
LoaderIdle ==
    [pc |-> "idle", file |-> NoFile, it |-> <<>>, prev_max_height |-> 0,
     pre_points |-> EmptyMap, pre_difficulty_points |-> EmptyMap]

\* checkpoints::checkpoints(): both maps empty
Init ==
    /\ m_points = EmptyMap
    /\ m_difficulty_points = EmptyMap
    /\ call = NoCall
    /\ loader = LoaderIdle

\* no call waits for its caller
Ready == call = NoCall

\* a call that may write the maps
Mutate(op, args, out) ==
    /\ m_points' = out.points
    /\ m_difficulty_points' = out.difficulty_points
    /\ call' = Call(op, args, [r |-> out.r])
    /\ UNCHANGED loader

\* a call of a const member function
Query(op, args, ret) ==
    /\ call' = Call(op, args, ret)
    /\ UNCHANGED <<m_points, m_difficulty_points, loader>>

\* the caller has taken the result of the last call
Return ==
    /\ call # NoCall
    /\ call' = NoCall
    /\ UNCHANGED <<m_points, m_difficulty_points, loader>>

\* writes are made while no load is in its loop
AddCheckpoint ==
    /\ Ready /\ loader.pc = "idle"
    /\ \E height \in Heights, hash_str \in HashStrs, difficulty_str \in DifficultyStrs :
         Mutate("add_checkpoint",
                [height |-> height, hash_str |-> hash_str,
                 difficulty_str |-> difficulty_str],
                add_checkpoint(m_points, m_difficulty_points, height, hash_str,
                               difficulty_str))

IsInCheckpointZone ==
    /\ Ready
    /\ \E height \in Heights :
         Query("is_in_checkpoint_zone", [height |-> height],
               [r |-> is_in_checkpoint_zone(m_points, height)])

CheckBlock ==
    /\ Ready
    /\ \E height \in Heights, h \in Hashes :
         Query("check_block", [height |-> height, h |-> h],
               check_block(m_points, height, h))

\* the chain may stand above every anchor, the fork height too
IsAlternativeBlockAllowed ==
    /\ Ready
    /\ \E blockchain_height \in 0..(MaxHeight + 1), block_height \in 0..(MaxHeight + 1) :
         Query("is_alternative_block_allowed",
               [blockchain_height |-> blockchain_height, block_height |-> block_height],
               [r |-> is_alternative_block_allowed(m_points, blockchain_height,
                                                   block_height)])

GetMaxHeight ==
    Ready /\ Query("get_max_height", <<>>, [r |-> get_max_height(m_points)])

\* The store operations: insertion and the queries.
Next ==
    \/ AddCheckpoint
    \/ IsInCheckpointZone
    \/ CheckBlock
    \/ IsAlternativeBlockAllowed
    \/ GetMaxHeight
    \/ Return

Spec == Init /\ [][Next]_vars

\* ------------------------------------------------- the conflict check
\* add_checkpoint calls that put anchors in the receiving store
AddCheckpointReceiver ==
    /\ Ready /\ loader.pc = "idle"
    /\ \E height \in Heights, hash_str \in {HashStr("a"), HashStr("b")},
          difficulty_str \in {<<>>, <<"1">>} :
         Mutate("add_checkpoint",
                [height |-> height, hash_str |-> hash_str,
                 difficulty_str |-> difficulty_str],
                add_checkpoint(m_points, m_difficulty_points, height, hash_str,
                               difficulty_str))

CheckForConflicts ==
    /\ Ready
    /\ \E other \in OtherStores :
         Query("check_for_conflicts", [other |-> other],
               [r |-> check_for_conflicts(m_points, other.points)])

NextConflicts ==
    \/ AddCheckpointReceiver
    \/ CheckForConflicts
    \/ Return

SpecConflicts == Init /\ [][NextConflicts]_vars

\* ------------------------------------------------------- the file loader
\* add_checkpoint calls that put anchors in the store before a file is loaded
AddCheckpointBeforeLoad ==
    /\ Ready /\ loader.pc = "idle"
    /\ \E height \in Heights, difficulty_str \in {<<>>, <<"1">>} :
         Mutate("add_checkpoint",
                [height |-> height, hash_str |-> HashStr("a"),
                 difficulty_str |-> difficulty_str],
                add_checkpoint(m_points, m_difficulty_points, height, HashStr("a"),
                               difficulty_str))

LoadCheckpointsFromJson ==
    /\ Ready /\ loader.pc = "idle"
    /\ \E file \in Files :
         Mutate("load_checkpoints_from_json", [file |-> file],
                load_checkpoints_from_json(m_points, m_difficulty_points, file))

NextLoad ==
    \/ AddCheckpointBeforeLoad
    \/ LoadCheckpointsFromJson
    \/ Return

SpecLoad == Init /\ [][NextLoad]_vars

\* ------------------------------------------------- the load orchestrator
LoadCheckpointsFromDns ==
    /\ Ready /\ loader.pc = "idle"
    /\ \E nettype \in NetworkTypes :
         Mutate("load_checkpoints_from_dns", [nettype |-> nettype],
                load_checkpoints_from_dns(m_points, m_difficulty_points, nettype))

LoadNewCheckpoints ==
    /\ Ready /\ loader.pc = "idle"
    /\ \E file \in Files, nettype \in NetworkTypes, dns \in BOOLEAN :
         Mutate("load_new_checkpoints",
                [file |-> file, nettype |-> nettype, dns |-> dns],
                load_new_checkpoints(m_points, m_difficulty_points, file, nettype, dns))

\* add_checkpoint(height, hash) calls made before the orchestrator runs
AddCheckpointBeforeNew ==
    /\ Ready /\ loader.pc = "idle"
    /\ \E height \in Heights :
         Mutate("add_checkpoint",
                [height |-> height, hash_str |-> HashStr("a"),
                 difficulty_str |-> <<>>],
                add_checkpoint(m_points, m_difficulty_points, height, HashStr("a"),
                               <<>>))

NextNew ==
    \/ AddCheckpointBeforeNew
    \/ LoadCheckpointsFromDns
    \/ LoadNewCheckpoints
    \/ Return

SpecNew == Init /\ [][NextNew]_vars

\* ------------------------------------------ every operation of the store
\* The calls of this specification that take a file or a checkpoints object
\* keep their operation and their result, not their argument.
InitDefaultCheckpoints ==
    /\ Ready /\ loader.pc = "idle"
    /\ \E nettype \in NetworkTypes :
         Mutate("init_default_checkpoints", [nettype |-> nettype],
                init_default_checkpoints(m_points, m_difficulty_points, nettype))

\* add_checkpoint with a hash that decodes or not, and no difficulty, one
\* that parses or one that does not
AddCheckpointAny ==
    /\ Ready /\ loader.pc = "idle"
    /\ \E height \in Heights, hash_str \in {HashStr("a"), HashStr("g")},
          difficulty_str \in {<<>>, <<"1">>, <<"z">>} :
         Mutate("add_checkpoint",
                [height |-> height, hash_str |-> hash_str,
                 difficulty_str |-> difficulty_str],
                add_checkpoint(m_points, m_difficulty_points, height, hash_str,
                               difficulty_str))

\* records whose hash decodes or not
AnyHashlines == [height : Heights, hash : {HashStr("a"), HashStr("g")}]

AnyFiles ==
    {NoFile, BadFile} \cup {GoodFile(hl) : hl \in SeqsUpTo(AnyHashlines, MaxRecords)}

LoadCheckpointsFromJsonAny ==
    /\ Ready /\ loader.pc = "idle"
    /\ \E file \in AnyFiles :
         Mutate("load_checkpoints_from_json", <<>>,
                load_checkpoints_from_json(m_points, m_difficulty_points, file))

\* the files of at most one record
ShortFiles == {NoFile, BadFile} \cup {GoodFile(hl) : hl \in SeqsUpTo(AnyHashlines, 1)}

LoadNewCheckpointsAny ==
    /\ Ready /\ loader.pc = "idle"
    /\ \E file \in ShortFiles, nettype \in NetworkTypes, dns \in BOOLEAN :
         Mutate("load_new_checkpoints", <<>>,
                load_new_checkpoints(m_points, m_difficulty_points, file, nettype, dns))

CheckForConflictsAny ==
    /\ Ready
    /\ \E other \in OtherStores :
         Query("check_for_conflicts", <<>>,
               [r |-> check_for_conflicts(m_points, other.points)])

NextAny ==
    \/ InitDefaultCheckpoints
    \/ AddCheckpointAny
    \/ LoadCheckpointsFromJsonAny
    \/ LoadCheckpointsFromDns
    \/ LoadNewCheckpointsAny
    \/ CheckForConflictsAny
    \/ IsInCheckpointZone
    \/ CheckBlock
    \/ IsAlternativeBlockAllowed
    \/ GetMaxHeight
    \/ Return

SpecAny == Init /\ [][NextAny]_vars

\* ----------------------------------- a load with queries made meanwhile
\* load_checkpoints_from_json up to its loop: the file is looked up, the
\* baseline taken and the file parsed
LoadEnter ==
    /\ Ready /\ loader.pc = "idle"
    /\ \E file \in Files :
         IF file.exists /\ file.parses
         THEN /\ loader' = [pc |-> "loop", file |-> file, it |-> file.hashlines,
                            prev_max_height |-> get_max_height(m_points),
                            pre_points |-> m_points,
                            pre_difficulty_points |-> m_difficulty_points]
              /\ UNCHANGED <<m_points, m_difficulty_points, call>>
         ELSE /\ call' = Call("load_checkpoints_from_json", [file |-> file],
                              [r |-> ~file.exists])
              /\ UNCHANGED <<m_points, m_difficulty_points, loader>>

\* one turn of the loop, or the return that ends it
LoadTurn ==
    /\ loader.pc = "loop"
    /\ IF loader.it = <<>>
       THEN /\ call' = [op |-> "load_checkpoints_from_json",
                        args |-> [file |-> loader.file], ret |-> [r |-> TRUE],
                        pre_points |-> loader.pre_points,
                        pre_difficulty_points |-> loader.pre_difficulty_points]
            /\ loader' = LoaderIdle
            /\ UNCHANGED <<m_points, m_difficulty_points>>
       ELSE LET s == load_hashline(m_points, m_difficulty_points,
                                   loader.prev_max_height, Head(loader.it))
            IN  /\ m_points' = s.points
                /\ m_difficulty_points' = s.difficulty_points
                /\ IF s.returned
                   THEN /\ call' = [op |-> "load_checkpoints_from_json",
                                    args |-> [file |-> loader.file],
                                    ret |-> [r |-> FALSE],
                                    pre_points |-> loader.pre_points,
                                    pre_difficulty_points |->
                                        loader.pre_difficulty_points]
                        /\ loader' = LoaderIdle
                   ELSE /\ loader' = [loader EXCEPT !.it = Tail(loader.it)]
                        /\ UNCHANGED call

NextConcurrent ==
    \/ LoadEnter
    \/ LoadTurn
    \/ IsInCheckpointZone
    \/ CheckBlock
    \/ IsAlternativeBlockAllowed
    \/ GetMaxHeight
    \/ Return

SpecConcurrent == Init /\ [][NextConcurrent]_vars

\* ================================================================== claims
\* the greatest element of a non-empty set of heights
Greatest(S) == CHOOSE x \in S : \A y \in S : y <= x

\* the hash a string decodes to
Decoded(hash_str) == hex_to_pod(hash_str).h

\* add_checkpoint has just returned from a call with a decodable hash that
\* differs from the hash anchored at the height
ConflictingInsert ==
    /\ call.op = "add_checkpoint"
    /\ hex_to_pod(call.args.hash_str).r
    /\ call.args.height \in DOMAIN call.pre_points
    /\ Decoded(call.args.hash_str) # call.pre_points[call.args.height]

\* C1: add_checkpoint(height, h2) at a height anchored with h1 # h2, h2 validly
\* encoded, returns false and leaves both maps exactly as they were; the
\* entry at the height is still h1.
C1_ConflictingInsertRejected ==
    ConflictingInsert =>
        /\ call.ret.r = FALSE
        /\ m_points = call.pre_points
        /\ m_difficulty_points = call.pre_difficulty_points
        /\ m_points[call.args.height] = call.pre_points[call.args.height]

\* a conflicting insert that also carries a parseable difficulty was refused
C1_Witness ==
    /\ ConflictingInsert
    /\ call.args.difficulty_str = <<"2">>
    /\ call.ret.r = FALSE

\* C2: check_block returns (true, not anchored) at a height without anchor,
\* (true, anchored) when the anchor equals the hash, (false, anchored) when
\* it differs, and leaves the store as it was.
C2_CheckBlockResult ==
    call.op = "check_block" =>
        LET height == call.args.height
            anchored == height \in DOMAIN m_points
        IN  /\ ~anchored =>
                call.ret = [r |-> TRUE, is_a_checkpoint |-> FALSE]
            /\ anchored /\ m_points[height] = call.args.h =>
                call.ret = [r |-> TRUE, is_a_checkpoint |-> TRUE]
            /\ anchored /\ m_points[height] # call.args.h =>
                call.ret = [r |-> FALSE, is_a_checkpoint |-> TRUE]
            /\ m_points = call.pre_points
            /\ m_difficulty_points = call.pre_difficulty_points

\* check_block has refused a block whose hash differs from the anchor
C2_Witness ==
    /\ call.op = "check_block"
    /\ call.args.height \in DOMAIN m_points
    /\ m_points[call.args.height] # call.args.h
    /\ call.ret.r = FALSE

\* the anchored heights at or below a chain height
AnchoredAtOrBelow(points, chain_height) ==
    {h \in DOMAIN points : h <= chain_height}

\* the decision of section 4.1 of the specification
ForkAllowed(points, chain_height, candidate_fork_height) ==
    IF candidate_fork_height = 0 THEN FALSE
    ELSE IF AnchoredAtOrBelow(points, chain_height) = {} THEN TRUE
    ELSE candidate_fork_height > Greatest(AnchoredAtOrBelow(points, chain_height))

\* a store anchored at heights 500, 1000 and 1500
Anchors500 == [h \in {500, 1000, 1500} |-> Decoded(HashStr("a"))]

\* C3: is_alternative_block_allowed is false for fork height 0; otherwise true
\* when no anchored height is <= chain_height; otherwise true exactly when
\* the fork height is greater than the greatest anchored height <=
\* chain_height. With anchors {500, 1000, 1500}: (400,100) true,
\* (1600,1500) false, (1600,1501) true.
C3_AlternativeBlockDecision ==
    /\ call.op = "is_alternative_block_allowed" =>
           call.ret.r = ForkAllowed(m_points, call.args.blockchain_height,
                                    call.args.block_height)
    /\ is_alternative_block_allowed(Anchors500, 400, 100) = TRUE
    /\ is_alternative_block_allowed(Anchors500, 1600, 1500) = FALSE
    /\ is_alternative_block_allowed(Anchors500, 1600, 1501) = TRUE
    /\ is_alternative_block_allowed(EmptyMap, 0, 1) = TRUE

\* a fork above the anchor at or below the chain height was allowed although
\* the store has a further anchor above the chain height
C3_Witness ==
    /\ call.op = "is_alternative_block_allowed"
    /\ call.ret.r = TRUE
    /\ AnchoredAtOrBelow(m_points, call.args.blockchain_height) # {}
    /\ \E h \in DOMAIN m_points : h > call.args.blockchain_height

\* C4 as stated: an allowed fork has no anchored height at or above its fork
\* height anywhere in the store.
C4_NoAnchorAtOrAboveFork ==
    (call.op = "is_alternative_block_allowed" /\ call.ret.r = TRUE) =>
        \A h \in DOMAIN m_points : ~(call.args.block_height <= h)

\* C4 (amended): an allowed fork has no anchored height h with
\* fork height <= h <= chain_height.
C4_NoAnchorBetweenForkAndChain ==
    (call.op = "is_alternative_block_allowed" /\ call.ret.r = TRUE) =>
        \A h \in DOMAIN m_points :
            ~(call.args.block_height <= h /\ h <= call.args.blockchain_height)

\* a fork was allowed while the chain has passed an anchor and the store has
\* an anchor at or above the fork height
C4_Witness ==
    /\ call.op = "is_alternative_block_allowed"
    /\ call.ret.r = TRUE
    /\ \E h \in DOMAIN m_points : h <= call.args.blockchain_height
    /\ \E h \in DOMAIN m_points : call.args.block_height <= h

\* load_checkpoints_from_json has returned from a file that exists and parses
LoadedFile ==
    /\ call.op = "load_checkpoints_from_json"
    /\ call.args.file.exists
    /\ call.args.file.parses

\* C5: when load_checkpoints_from_json returns false, both maps are what they
\* were before the call: none of the file's records remains inserted.
C5_FailedLoadLeavesStore ==
    (call.op = "load_checkpoints_from_json" /\ call.ret.r = FALSE) =>
        /\ m_points = call.pre_points
        /\ m_difficulty_points = call.pre_difficulty_points

\* what a query returns on a store with the given points
Answer(op, args, points) ==
    CASE op = "is_in_checkpoint_zone" ->
             [r |-> is_in_checkpoint_zone(points, args.height)]
      [] op = "check_block" -> check_block(points, args.height, args.h)
      [] op = "is_alternative_block_allowed" ->
             [r |-> is_alternative_block_allowed(points, args.blockchain_height,
                                                 args.block_height)]
      [] op = "get_max_height" -> [r |-> get_max_height(points)]

\* the points the load in progress leaves when it returns
PointsAfterLoad ==
    load_hashlines(loader.pre_points, loader.pre_difficulty_points,
                   loader.prev_max_height, loader.file.hashlines).points

\* C6: a query made while a load is in its loop returns what it returns on
\* the store as it was before the load or on the store as the whole load
\* leaves it.
C6_LoadAtomicToReaders ==
    (loader.pc = "loop" /\ call.op # "none") =>
        \/ call.ret = Answer(call.op, call.args, loader.pre_points)
        \/ call.ret = Answer(call.op, call.args, PointsAfterLoad)

\* the baseline of a load: the greatest anchored height before the call, 0
\* for the empty store
Baseline == IF DOMAIN call.pre_points = {} THEN 0 ELSE Greatest(DOMAIN call.pre_points)

\* the hashline at position i is above the baseline, decodes, and no earlier
\* hashline above the baseline gives its height another hash
Insertable(hashlines, i) ==
    /\ hashlines[i].height > Baseline
    /\ hex_to_pod(hashlines[i].hash).r
    /\ \A j \in 1..(i - 1) :
           hashlines[j].height = hashlines[i].height =>
               Decoded(hashlines[j].hash) = Decoded(hashlines[i].hash)

\* C7: with the baseline taken once before the first record, a record at or
\* below it leaves the entry of its height unchanged and never fails the
\* load, and after a successful load every record above it is anchored
\* with its decoded hash; the load succeeds exactly when every record above
\* the baseline decodes and does not conflict with an earlier one.
C7_BaselineFilter ==
    LoadedFile =>
        LET hashlines == call.args.file.hashlines
            above == {i \in 1..Len(hashlines) : hashlines[i].height > Baseline}
        IN  /\ \A h \in 0..Baseline :
                   /\ (h \in DOMAIN m_points) = (h \in DOMAIN call.pre_points)
                   /\ h \in DOMAIN m_points => m_points[h] = call.pre_points[h]
            /\ call.ret.r = (\A i \in above : Insertable(hashlines, i))
            /\ call.ret.r =>
                   \A i \in above :
                       /\ hashlines[i].height \in DOMAIN m_points
                       /\ m_points[hashlines[i].height] = Decoded(hashlines[i].hash)

\* a load succeeded whose file holds a record at an anchored height with
\* another hash than the stored one and a record above the baseline
C7_Witness ==
    /\ LoadedFile
    /\ call.ret.r = TRUE
    /\ \E i, j \in 1..Len(call.args.file.hashlines) :
           LET skipped == call.args.file.hashlines[i]
               added == call.args.file.hashlines[j]
           IN  /\ skipped.height \in DOMAIN call.pre_points
               /\ hex_to_pod(skipped.hash).r
               /\ Decoded(skipped.hash) # call.pre_points[skipped.height]
               /\ added.height > Baseline
               /\ added.height \notin DOMAIN call.pre_points
               /\ added.height \in DOMAIN m_points

\* add_checkpoint(height, hash) has returned from a call with a decodable
\* hash at a height that was unanchored or anchored with that hash
FirstInsert ==
    /\ call.op = "add_checkpoint"
    /\ call.args.difficulty_str = <<>>
    /\ hex_to_pod(call.args.hash_str).r
    /\ call.args.height \in DOMAIN call.pre_points =>
           call.pre_points[call.args.height] = Decoded(call.args.hash_str)

\* C8: add_checkpoint(height, hash) succeeds, and the same call made again
\* succeeds and leaves the store as the first call left it.
C8_InsertIdempotent ==
    FirstInsert =>
        /\ call.ret.r = TRUE
        /\ add_checkpoint(m_points, m_difficulty_points, call.args.height,
                          call.args.hash_str, <<>>)
               = Outcome(TRUE, m_points, m_difficulty_points)

\* an insertion at a height that already held the same hash (written in the
\* other case) and a difficulty has succeeded
C8_Witness ==
    /\ FirstInsert
    /\ call.ret.r = TRUE
    /\ call.args.height \in DOMAIN call.pre_points
    /\ call.args.height \in DOMAIN m_difficulty_points
    /\ call.args.hash_str = HashStr("A")

\* C9 as stated: after check_for_conflicts(other) returns true, every hash
\* anchor of other is in the receiving store.
C9_MergeInsertsEveryAnchor ==
    (call.op = "check_for_conflicts" /\ call.ret.r = TRUE) =>
        \A h \in DOMAIN call.args.other.points :
            /\ h \in DOMAIN m_points
            /\ m_points[h] = call.args.other.points[h]

\* C9 (amended): check_for_conflicts(other) inserts nothing: it leaves both
\* maps of the receiving store as they were, and after it returns true every
\* hash anchor of other whose height is anchored in the receiving store has
\* the same hash there.
C9_ConflictCheckInsertsNothing ==
    call.op = "check_for_conflicts" =>
        /\ m_points = call.pre_points
        /\ m_difficulty_points = call.pre_difficulty_points
        /\ call.ret.r = TRUE =>
               \A h \in (DOMAIN call.args.other.points) \cap (DOMAIN m_points) :
                   m_points[h] = call.args.other.points[h]

\* the check succeeded against a store that shares a second anchor with the
\* receiver and has an anchor the receiver lacks
C9_Witness ==
    /\ call.op = "check_for_conflicts"
    /\ call.ret.r = TRUE
    /\ \E h \in DOMAIN call.args.other.points : h \notin DOMAIN m_points
    /\ \E h \in DOMAIN call.args.other.points :
           /\ h \in DOMAIN m_points
           /\ h # Keys(DOMAIN call.args.other.points)[1]

\* C10: check_for_conflicts(other) returns false exactly when some height is
\* anchored in both stores with different hashes; the difficulty anchors of
\* the two stores have no part in the result.
C10_ConflictIffHashesDiffer ==
    call.op = "check_for_conflicts" =>
        call.ret.r =
            ~ \E h \in (DOMAIN call.args.other.points) \cap (DOMAIN m_points) :
                  m_points[h] # call.args.other.points[h]

\* the check succeeded although the two stores hold different difficulties
\* at a height where their hashes agree
C10_Witness ==
    /\ call.op = "check_for_conflicts"
    /\ call.ret.r = TRUE
    /\ \E h \in (DOMAIN call.args.other.difficulty_points)
                    \cap (DOMAIN m_difficulty_points) :
           /\ m_difficulty_points[h] # call.args.other.difficulty_points[h]
           /\ m_points[h] = call.args.other.points[h]
\* C12: load_checkpoints_from_json of a path where no file exists returns
\* true and leaves both maps as they were.
C12_MissingFileIsSuccess ==
    (call.op = "load_checkpoints_from_json" /\ ~call.args.file.exists) =>
        /\ call.ret.r = TRUE
        /\ m_points = call.pre_points
        /\ m_difficulty_points = call.pre_difficulty_points

\* a missing file was loaded into a store that holds anchors
C12_Witness ==
    /\ call.op = "load_checkpoints_from_json"
    /\ ~call.args.file.exists
    /\ call.ret.r = TRUE
    /\ DOMAIN m_points # {}
    /\ DOMAIN m_difficulty_points # {}

\* add_checkpoint has returned from a call with a parseable difficulty that
\* differs from the difficulty anchored at the height
ConflictingDifficulty ==
    /\ call.op = "add_checkpoint"
    /\ call.args.difficulty_str # <<>>
    /\ difficulty_type(call.args.difficulty_str).ok
    /\ call.args.height \in DOMAIN call.pre_difficulty_points
    /\ difficulty_type(call.args.difficulty_str).value
           # call.pre_difficulty_points[call.args.height]

\* C13: add_checkpoint(height, hash, difficulty) with a parseable difficulty
\* at a height whose difficulty anchor holds another value returns false and
\* leaves both maps as they were.
C13_DifficultyNeverOverwritten ==
    ConflictingDifficulty =>
        /\ call.ret.r = FALSE
        /\ m_difficulty_points = call.pre_difficulty_points
        /\ m_points = call.pre_points

\* another difficulty was refused at a height although the hash handed in is
\* the anchored one
C13_Witness ==
    /\ ConflictingDifficulty
    /\ hex_to_pod(call.args.hash_str).r
    /\ Decoded(call.args.hash_str) = call.pre_points[call.args.height]
    /\ call.ret.r = FALSE

\* C14: is_in_checkpoint_zone(height) is true exactly when the store has a
\* hash anchor and height <= the greatest anchored height; on the empty
\* store it is false for every height, 0 included.
C14_CheckpointZone ==
    /\ call.op = "is_in_checkpoint_zone" =>
           call.ret.r = (/\ DOMAIN m_points # {}
                         /\ \E h \in DOMAIN m_points : call.args.height <= h)
    /\ \A height \in Heights : is_in_checkpoint_zone(EmptyMap, height) = FALSE

\* the greatest anchored height itself was found to be in the zone
C14_Witness ==
    /\ call.op = "is_in_checkpoint_zone"
    /\ call.ret.r = TRUE
    /\ call.args.height \in DOMAIN m_points
    /\ \A h \in DOMAIN m_points : h <= call.args.height
    /\ Cardinality(DOMAIN m_points) > 1

\* C15: get_max_height() returns the greatest key of m_points, and 0 when
\* m_points is empty; it returns 0 for the empty store and for the store
\* whose only anchor is at height 0 alike.
C15_MaxHeight ==
    /\ call.op = "get_max_height" =>
           /\ DOMAIN m_points = {} => call.ret.r = 0
           /\ DOMAIN m_points # {} =>
                  /\ call.ret.r \in DOMAIN m_points
                  /\ \A h \in DOMAIN m_points : h <= call.ret.r
    /\ get_max_height(EmptyMap) = 0
    /\ get_max_height([h \in {0} |-> Decoded(HashStr("a"))]) = 0

\* get_max_height returned the greatest of several anchored heights
C15_Witness ==
    /\ call.op = "get_max_height"
    /\ Cardinality(DOMAIN m_points) > 1
    /\ call.ret.r = MaxHeight

\* C17: when add_checkpoint returns false because the hash string does not
\* decode or because the non-empty difficulty string does not parse, both
\* maps are what they were before the call.
C17_FailedInsertLeavesStore ==
    (/\ call.op = "add_checkpoint"
     /\ call.ret.r = FALSE
     /\ \/ ~hex_to_pod(call.args.hash_str).r
        \/ (call.args.difficulty_str # <<>>
            /\ ~difficulty_type(call.args.difficulty_str).ok)) =>
        /\ m_points = call.pre_points
        /\ m_difficulty_points = call.pre_difficulty_points

\* C19: an allowed fork has no anchored height h with fork height <= h <=
\* chain height, and with the same store and chain height every greater fork
\* height is allowed too.
C19_ForkSafeAndMonotone ==
    (call.op = "is_alternative_block_allowed" /\ call.ret.r = TRUE) =>
        /\ ~ \E h \in DOMAIN m_points :
                 call.args.block_height <= h /\ h <= call.args.blockchain_height
        /\ \A f \in (call.args.block_height + 1)..(MaxHeight + 2) :
               is_alternative_block_allowed(m_points, call.args.blockchain_height, f)

\* a fork was allowed right above an anchor the chain has passed, and a
\* fork at that anchor is refused
C19_Witness ==
    /\ call.op = "is_alternative_block_allowed"
    /\ call.ret.r = TRUE
    /\ call.args.block_height - 1 \in DOMAIN m_points
    /\ call.args.block_height <= call.args.blockchain_height
    /\ ~is_alternative_block_allowed(m_points, call.args.blockchain_height,
                                     call.args.block_height - 1)

\* C20: load_checkpoints_from_json never anchors height 0: height 0 is
\* anchored after the call exactly when it was before, with the same hash.
C20_LoadNeverAnchorsZero ==
    call.op = "load_checkpoints_from_json" =>
        /\ (0 \in DOMAIN m_points) = (0 \in DOMAIN call.pre_points)
        /\ 0 \in DOMAIN m_points => m_points[0] = call.pre_points[0]

\* a file with a decodable record at height 0 and a record above was loaded
\* into the empty store: the load succeeded and height 0 has no anchor
C20_Witness ==
    /\ LoadedFile
    /\ call.pre_points = EmptyMap
    /\ call.ret.r = TRUE
    /\ \E i \in 1..Len(call.args.file.hashlines) :
           /\ call.args.file.hashlines[i].height = 0
           /\ hex_to_pod(call.args.file.hashlines[i].hash).r
    /\ m_points # EmptyMap
    /\ 0 \notin DOMAIN m_points
\* what the file load alone does from the maps the last call was entered with
FileLoadAlone ==
    load_checkpoints_from_json(call.pre_points, call.pre_difficulty_points,
                               call.args.file)

\* C11: load_new_checkpoints(file, nettype, dns) leaves the maps as the file
\* load leaves them; without dns it returns what the file load returns; with
\* dns it returns false for every input, load_checkpoints_from_dns returning
\* false without touching the maps.
C11_LoadNewCombinesResults ==
    /\ call.op = "load_new_checkpoints" =>
           /\ m_points = FileLoadAlone.points
           /\ m_difficulty_points = FileLoadAlone.difficulty_points
           /\ ~call.args.dns => call.ret.r = FileLoadAlone.r
           /\ call.args.dns => call.ret.r = FALSE
    /\ call.op = "load_checkpoints_from_dns" =>
           /\ call.ret.r = FALSE
           /\ m_points = call.pre_points
           /\ m_difficulty_points = call.pre_difficulty_points

\* with dns set the file was loaded without error and its records are
\* inserted, and the call returned false
C11_Witness ==
    /\ call.op = "load_new_checkpoints"
    /\ call.args.dns
    /\ FileLoadAlone.r = TRUE
    /\ m_points # call.pre_points
    /\ call.ret.r = FALSE

\* ---------------------------------------------------------------------------
\* C16: over any sequence of operations, successful or failed, the store is
\* append-only: in every step a height anchored with hash h stays anchored
\* with h, a height with a difficulty anchor keeps that difficulty, and
\* get_max_height() does not decrease.
AppendOnlyStep ==
    /\ \A h \in DOMAIN m_points :
           h \in DOMAIN m_points' /\ m_points'[h] = m_points[h]
    /\ \A h \in DOMAIN m_difficulty_points :
           /\ h \in DOMAIN m_difficulty_points'
           /\ m_difficulty_points'[h] = m_difficulty_points[h]
    /\ get_max_height(m_points') >= get_max_height(m_points)

C18_DifficultyAnchorsHaveHash ==
    DOMAIN m_difficulty_points \subseteq DOMAIN m_points

\* an insertion with a difficulty has been refused for its hash, in a store
\* that holds a difficulty anchor and a hash anchor without difficulty
C18_Witness ==
    /\ call.op = "add_checkpoint"
    /\ ~call.ret.r
    /\ ~hex_to_pod(call.args.hash_str).r
    /\ call.args.difficulty_str = <<"1">>
    /\ DOMAIN m_difficulty_points # {}
    /\ DOMAIN m_difficulty_points # DOMAIN m_points

====
